---- MODULE Spec2Model ----
(***************************************************************************)
(* Model of `vault operator diagnose` (command/operator_diagnose.go):      *)
(* OperatorDiagnoseCommand.RunWithParsedFlags, the three checks it runs     *)
(* through diagnose.Test, the listener cleanup guard (a sync.Once field of  *)
(* the command) and the deferred finalization of the report.               *)
(*                                                                         *)
(* The diagnose package (spans, Test, Shutdown, ListenerChecks) and the     *)
(* ServerCommand collaborators (parseConfig, InitListeners, setupStorage)   *)
(* are modelled from their specified contracts; what they return is an      *)
(* environment choice.                                                      *)
(***************************************************************************)
EXTENDS Integers, Sequences, FiniteSets, TLC

\* ------------------------------------------------------------------ bounds
MaxListeners == 2      \* listener stanzas in a parsed configuration
MaxFindings  == 1      \* findings returned by config.Validate
MaxRuns      == 2      \* invocations of RunWithParsedFlags on one command
MaxConfigs   == 1      \* -config paths given on the command line

\* ------------------------------------------------------------- vocabulary
ParseName    == "Parse configuration"
ListenerName == "init-listeners"
StorageName  == "storage"
RootName     == "initialization"
CheckOrder   == <<ParseName, ListenerName, StorageName>>
CheckNames   == {ParseName, ListenerName, StorageName}

\* values the operator can give to -skip (flag usage text)
SkipNames    == {"listener", "storage"}

\* the call sites of diagnose.Test pass no skip set: c.flagSkips is never read
NoSkips      == {}

TLSDisabledText  == "TLS is disabled in a Listener config stanza."
NoClientCertText == "TLS for a listener is turned on without requiring client certs."
OneOffText       == "nope, didn't work"
ParseErrText     == "error parsing configuration"
BindErrText      == "Error initializing listener"
TLSErrText       == "error creating TLS Configuration out of config file"
LCErrText        == "listener checks failed"
LCWarnText       == "listener checks finding"
StorageErrText   == "error initializing storage"
FindingText      == "validation finding"
SkipText         == "skipped"

\* a listener stanza of the parsed configuration (the two fields the code reads)
ListenerConfigs == [TLSDisable : BOOLEAN, TLSDisableClientCerts : BOOLEAN]

\* what the environment answers for one listener: bind and TLS construction
ListenerOutcomes == {"ok", "bindErr", "tlsErr"}

\* what structural validation of the sanitized listeners finds
LCFindings == {"ok", "warn", "err"}

RECURSIVE SeqsUpTo(_, _)
SeqsUpTo(S, n) ==
  IF n = 0 THEN {<<>>}
  ELSE LET shorter == SeqsUpTo(S, n - 1)
       IN shorter \cup {Append(s, x) : s \in {t \in shorter : Len(t) = n - 1}, x \in S}

\* --------------------------------------------------- span tree / reporter
Rank(st) == CASE st = "ok" -> 0 [] st = "skip" -> 1 [] st = "warn" -> 2 [] st = "error" -> 3

Worse(a, b) == IF Rank(a) >= Rank(b) THEN a ELSE b

\* the worst status of a set of statuses/severities; ok for the empty set
Worst(S) == IF S = {} THEN "ok" ELSE CHOOSE a \in S : \A b \in S : Rank(a) >= Rank(b)

Children(sp, id) == {c \in 1..Len(sp) : sp[c].parent = id}

Severities(sp, id) == {sp[id].messages[k].severity : k \in 1..Len(sp[id].messages)}

\* the status a span should show: its own messages and its children
Aggregate(sp, id) == Worst(Severities(sp, id) \cup {sp[c].status : c \in Children(sp, id)})

StartSpan(sp, parent, name) ==
  Append(sp, [name |-> name, parent |-> parent, status |-> "ok",
              messages |-> <<>>, ended |-> FALSE])

AddMessage(sp, id, sev, text) ==
  [sp EXCEPT ![id].messages = Append(@, [severity |-> sev, text |-> text])]

RECURSIVE AddMessages(_, _, _)
AddMessages(sp, id, msgs) ==
  IF msgs = <<>> THEN sp
  ELSE AddMessages(AddMessage(sp, id, Head(msgs).severity, Head(msgs).text), id, Tail(msgs))

RECURSIVE IntoAncestors(_, _, _)
IntoAncestors(sp, p, st) ==
  IF p = 0 THEN sp
  ELSE IntoAncestors([sp EXCEPT ![p].status = Worse(@, st)], sp[p].parent, st)

\* span.End(): fixes the span's status and folds it into its ancestors;
\* ending an ended span changes nothing
EndSpan(sp, id) ==
  IF sp[id].ended THEN sp
  ELSE LET st == Aggregate(sp, id)
       IN IntoAncestors([sp EXCEPT ![id].ended = TRUE, ![id].status = st],
                        sp[id].parent, st)

RECURSIVE CloseOpenFrom(_, _)
CloseOpenFrom(sp, id) ==
  IF id = 0 THEN sp ELSE CloseOpenFrom(EndSpan(sp, id), id - 1)

RECURSIVE FlattenFrom(_, _)
FlattenFrom(sp, id) ==
  IF id > Len(sp) THEN <<>>
  ELSE [k \in 1..Len(sp[id].messages) |-> <<sp[id].name, sp[id].messages[k]>>]
       \o FlattenFrom(sp, id + 1)

\* diagnose.Shutdown(): closes the spans still open (deepest first) and
\* returns the snapshot with its flat (spanPath, message) list
Shutdown(sp) ==
  LET closed == CloseOpenFrom(sp, Len(sp))
  IN [tree |-> closed, flat |-> FlattenFrom(closed, 1)]

\* diagnose.Test(ctx, name, checkFn) under a skip set: whether checkFn runs
Invoked(name, skipSet) == name \notin skipSet

\* diagnose.Test: the span of the check under the root span (id 1), given the
\* messages checkFn recorded and the error it returned ("" for nil)
Test(sp, name, skipSet, fnMessages, fnErr) ==
  LET opened == StartSpan(sp, 1, name)
      id     == Len(opened)
  IN IF ~Invoked(name, skipSet)
       THEN EndSpan(AddMessage(opened, id, "skip", SkipText), id)
       ELSE LET ran == AddMessages(opened, id, fnMessages)
            IN IF fnErr # ""
                 THEN EndSpan(AddMessage(ran, id, "error", fnErr), id)
                 ELSE EndSpan(ran, id)

\* ------------------------------------------------------------------ state
VARIABLES
  cleanupGuard,  \* c.cleanupGuard, the sync.Once of the command: TRUE once Do has run
  runs,          \* invocations of RunWithParsedFlags on this command so far
  pc,            \* position of the current invocation
  flagConfigs,   \* len(c.flagConfigs)
  flagSkips,     \* c.flagSkips as a set
  config,        \* config.Listeners of the parsed configuration
  results,       \* per check: "notrun", "ok" (checkFn returned nil) or "err"
  initCalls,     \* diagnose.Init() calls of this invocation
  spans,         \* the span tree of this invocation
  reports,       \* reports written to standard output by this invocation
  lnState,       \* the listeners InitListeners bound: "open" or "closed"
  closes,        \* per bound listener, the number of Close() calls
  sanitized,     \* indices handed to diagnose.ListenerChecks
  events,        \* the calls of this invocation, in order: <<op, name, index>>
  exitCode       \* the value returned, -1 while running

vars == <<cleanupGuard, runs, pc, flagConfigs, flagSkips, config, results, initCalls,
          spans, reports, lnState, closes, sanitized, events, exitCode>>

Ev(op, name, i) == <<op, name, i>>

Msg(sev, text) == [severity |-> sev, text |-> text]

NotRun == [n \in CheckNames |-> "notrun"]

Init ==
  /\ cleanupGuard = FALSE
  /\ runs = 0
  /\ pc = "idle"
  /\ flagConfigs = 0
  /\ flagSkips = {}
  /\ config = <<>>
  /\ results = NotRun
  /\ initCalls = 0
  /\ spans = <<>>
  /\ reports = <<>>
  /\ lnState = <<>>
  /\ closes = <<>>
  /\ sanitized = <<>>
  /\ events = <<>>
  /\ exitCode = -1

\* Run(args): the flags are parsed into the command before RunWithParsedFlags
CanInvoke == pc \in {"idle", "done"} /\ runs < MaxRuns

\* variant: the -config test lets an empty list through
HasConfig_AcceptsNone(n) == n >= 0

\* the guard of lines 116-119
HasConfig(n) == n > 0

\* variant: the `return 1` after a failed check is missing
AfterCheck_NoReturn(err, next) == next

\* `if err != nil { return 1 }` after a check, else on to the next step
AfterCheck(err, next) == IF err # "" THEN "finalize" ELSE next

\* the value the invocation is about to return once a check has returned
ExitAfter(err, code) == IF err # "" THEN 1 ELSE code

\* lines 116-119: no -config path: usage error, return 1
RunNoConfig ==
  /\ CanInvoke
  /\ \E n \in 0..MaxConfigs, skips \in SUBSET SkipNames :
       /\ ~HasConfig(n)
       /\ flagConfigs' = n
       /\ flagSkips' = skips
  /\ runs' = runs + 1
  /\ config' = <<>>
  /\ results' = NotRun
  /\ initCalls' = 0
  /\ spans' = <<>>
  /\ reports' = <<>>
  /\ lnState' = <<>>
  /\ closes' = <<>>
  /\ sanitized' = <<>>
  /\ events' = <<Ev("UI.Error", "", 0), Ev("return", "", 1)>>
  /\ exitCode' = 1
  /\ pc' = "done"
  /\ UNCHANGED cleanupGuard

\* variant: span.End() is called at once instead of deferred
RunStart_EndNotDeferred ==
  /\ CanInvoke
  /\ \E n \in 0..MaxConfigs, skips \in SUBSET SkipNames :
       /\ HasConfig(n)
       /\ flagConfigs' = n
       /\ flagSkips' = skips
  /\ runs' = runs + 1
  /\ config' = <<>>
  /\ results' = NotRun
  /\ initCalls' = 1
  /\ spans' = AddMessage(EndSpan(StartSpan(<<>>, 0, RootName), 1), 1, "error", OneOffText)
  /\ reports' = <<>>
  /\ lnState' = <<>>
  /\ closes' = <<>>
  /\ sanitized' = <<>>
  /\ events' = <<Ev("Init", "", 0), Ev("StartSpan", RootName, 0), Ev("Error", OneOffText, 0)>>
  /\ exitCode' = -1
  /\ pc' = "parse"
  /\ UNCHANGED cleanupGuard

\* lines 116-130: Init, the root span, the deferred finalizer is registered,
\* the one-off diagnose.Error on the root span
RunStart ==
  /\ CanInvoke
  /\ \E n \in 0..MaxConfigs, skips \in SUBSET SkipNames :
       /\ HasConfig(n)
       /\ flagConfigs' = n
       /\ flagSkips' = skips
  /\ runs' = runs + 1
  /\ config' = <<>>
  /\ results' = NotRun
  /\ initCalls' = 1
  /\ spans' = AddMessage(StartSpan(<<>>, 0, RootName), 1, "error", OneOffText)
  /\ reports' = <<>>
  /\ lnState' = <<>>
  /\ closes' = <<>>
  /\ sanitized' = <<>>
  /\ events' = <<Ev("Init", "", 0), Ev("StartSpan", RootName, 0), Ev("Error", OneOffText, 0)>>
  /\ exitCode' = -1
  /\ pc' = "parse"
  /\ UNCHANGED cleanupGuard

RECURSIVE FindingWarnings(_)
FindingWarnings(n) ==
  IF n = 0 THEN <<>> ELSE Append(FindingWarnings(n - 1), Msg("warn", FindingText))

RECURSIVE WarnEvents(_, _)
WarnEvents(msgs, i) ==
  IF msgs = <<>> THEN <<>>
  ELSE <<Ev("Warn", Head(msgs).text, i)>> \o WarnEvents(Tail(msgs), i)

\* variant: diagnose.Warn is called with a context that carries no span
ParseFn_WarnWithoutSpan(ok, n) ==
  IF ~ok
    THEN [messages |-> <<>>, err |-> ParseErrText,
          events |-> <<Ev("parseConfig", "err", 0)>>]
    ELSE [messages |-> <<>>, err |-> "",
          events |-> <<Ev("parseConfig", "ok", 0), Ev("Validate", "", n)>>
                     \o WarnEvents(FindingWarnings(n), 0)]

\* variant: validation findings are returned as the error of the check
ParseFn_FindingsFatal(ok, n) ==
  IF ~ok
    THEN [messages |-> <<>>, err |-> ParseErrText,
          events |-> <<Ev("parseConfig", "err", 0)>>]
    ELSE [messages |-> FindingWarnings(n), err |-> IF n > 0 THEN FindingText ELSE "",
          events |-> <<Ev("parseConfig", "ok", 0), Ev("Validate", "", n)>>
                     \o WarnEvents(FindingWarnings(n), 0)]

\* lines 153-165: the check function of "Parse configuration"
ParseFn(ok, n) ==
  IF ~ok
    THEN [messages |-> <<>>, err |-> ParseErrText,
          events |-> <<Ev("parseConfig", "err", 0)>>]
    ELSE [messages |-> FindingWarnings(n), err |-> "",
          events |-> <<Ev("parseConfig", "ok", 0), Ev("Validate", "", n)>>
                     \o WarnEvents(FindingWarnings(n), 0)]

\* lines 152-168
ParseConfiguration ==
  /\ pc = "parse"
  /\ \E ok \in BOOLEAN, n \in 0..MaxFindings, cfg \in SeqsUpTo(ListenerConfigs, MaxListeners) :
       LET run == Invoked(ParseName, NoSkips)
           fn  == IF run THEN ParseFn(ok, n) ELSE [messages |-> <<>>, err |-> "", events |-> <<>>]
       IN /\ (~ok \/ ~run) => (n = 0 /\ cfg = <<>>)
          /\ config' = cfg
          /\ spans' = Test(spans, ParseName, NoSkips, fn.messages, fn.err)
          /\ results' = [results EXCEPT ![ParseName] =
                           IF ~run THEN "notrun" ELSE IF fn.err # "" THEN "err" ELSE "ok"]
          /\ events' = events \o <<Ev("StartSpan", ParseName, 0)>>
                         \o (IF run THEN <<Ev("call", ParseName, 0)>> ELSE <<>>)
                         \o fn.events \o <<Ev("span.End", ParseName, 0)>>
          /\ exitCode' = ExitAfter(fn.err, exitCode)
          /\ pc' = AfterCheck(fn.err, "listeners")
  /\ UNCHANGED <<cleanupGuard, runs, flagConfigs, flagSkips, initCalls, reports,
                 lnState, closes, sanitized>>

\* ServerCommand.InitListeners (called at line 177): binds the listeners in
\* configuration order; the first bind failure is returned as the error and
\* the listeners bound before it stay as they are
RECURSIVE InitListeners(_, _, _)
InitListeners(out, i, acc) ==
  IF i > Len(out) THEN acc
  ELSE IF out[i] = "bindErr"
    THEN [acc EXCEPT !.err = BindErrText,
                     !.events = Append(@, Ev("bind", "err", i))]
    ELSE InitListeners(out, i + 1,
           [acc EXCEPT !.bound = Append(@, i),
                       !.events = Append(@, Ev("bind", "ok", i))])

\* variant: the `continue` of line 194 is missing, a TLS-disabled listener
\* goes on to TLS construction and into the sanitized set
RECURSIVE ListenerLoop_NoContinue(_, _, _, _)
ListenerLoop_NoContinue(cfg, out, i, acc) ==
  IF i > Len(cfg) THEN acc
  ELSE LET a0 == IF cfg[i].TLSDisable
                   THEN [acc EXCEPT !.messages = Append(@, Msg("warn", TLSDisabledText)),
                                    !.events = Append(@, Ev("Warn", TLSDisabledText, i))]
                   ELSE acc
           a1 == IF cfg[i].TLSDisableClientCerts
                   THEN [a0 EXCEPT !.messages = Append(@, Msg("warn", NoClientCertText)),
                                   !.events = Append(@, Ev("Warn", NoClientCertText, i))]
                   ELSE a0
       IN IF out[i] = "tlsErr"
            THEN [a1 EXCEPT !.err = TLSErrText,
                            !.events = Append(@, Ev("TLSConfig", "err", i))]
            ELSE ListenerLoop_NoContinue(cfg, out, i + 1,
                   [a1 EXCEPT !.sanitized = Append(@, i),
                              !.events = Append(@, Ev("TLSConfig", "ok", i))])

\* variant: the client-certificate warning is recorded after the TLS material
\* was constructed
RECURSIVE ListenerLoop_WarnAfterTLS(_, _, _, _)
ListenerLoop_WarnAfterTLS(cfg, out, i, acc) ==
  IF i > Len(cfg) THEN acc
  ELSE IF cfg[i].TLSDisable
    THEN ListenerLoop_WarnAfterTLS(cfg, out, i + 1,
           [acc EXCEPT !.messages = Append(@, Msg("warn", TLSDisabledText)),
                       !.events = Append(@, Ev("Warn", TLSDisabledText, i))])
    ELSE IF out[i] = "tlsErr"
      THEN [acc EXCEPT !.err = TLSErrText,
                       !.events = Append(@, Ev("TLSConfig", "err", i))]
      ELSE LET a1 == [acc EXCEPT !.sanitized = Append(@, i),
                                 !.events = Append(@, Ev("TLSConfig", "ok", i))]
           IN ListenerLoop_WarnAfterTLS(cfg, out, i + 1,
                IF cfg[i].TLSDisableClientCerts
                  THEN [a1 EXCEPT !.messages = Append(@, Msg("warn", NoClientCertText)),
                                  !.events = Append(@, Ev("Warn", NoClientCertText, i))]
                  ELSE a1)

\* lines 190-212: the loop over the bound listeners
RECURSIVE ListenerLoop(_, _, _, _)
ListenerLoop(cfg, out, i, acc) ==
  IF i > Len(cfg) THEN acc
  ELSE IF cfg[i].TLSDisable
    THEN ListenerLoop(cfg, out, i + 1,
           [acc EXCEPT !.messages = Append(@, Msg("warn", TLSDisabledText)),
                       !.events = Append(@, Ev("Warn", TLSDisabledText, i))])
    ELSE LET a1 == IF cfg[i].TLSDisableClientCerts
                     THEN [acc EXCEPT !.messages = Append(@, Msg("warn", NoClientCertText)),
                                      !.events = Append(@, Ev("Warn", NoClientCertText, i))]
                     ELSE acc
         IN IF out[i] = "tlsErr"
              THEN [a1 EXCEPT !.err = TLSErrText,
                              !.events = Append(@, Ev("TLSConfig", "err", i))]
              ELSE ListenerLoop(cfg, out, i + 1,
                     [a1 EXCEPT !.sanitized = Append(@, i),
                                !.events = Append(@, Ev("TLSConfig", "ok", i))])

\* diagnose.ListenerChecks(sanitizedListeners), line 213: a finding of
\* warning severity is recorded on the span of the check, a finding of error
\* severity is the error returned, which is the check function's return value
ListenerChecks(acc, lc) ==
  LET e == Ev("ListenerChecks", lc, Len(acc.sanitized))
  IN [acc EXCEPT !.err = IF lc = "err" THEN LCErrText ELSE "",
                 !.checked = TRUE,
                 !.messages = IF lc = "warn" THEN Append(@, Msg("warn", LCWarnText)) ELSE @,
                 !.events = IF lc = "warn" THEN @ \o <<e, Ev("Warn", LCWarnText, 0)>>
                            ELSE Append(@, e)]

\* line 188, `defer c.cleanupGuard.Do(listenerCloseFunc)`: when the check
\* function returns, the Once runs listenerCloseFunc unless it already ran one
GuardDo(guard, acc) ==
  IF guard
    THEN [acc EXCEPT !.events = Append(@, Ev("guard.Do", "spent", 0))]
    ELSE [acc EXCEPT !.closed = acc.bound,
                     !.guard = TRUE,
                     !.events = Append(@, Ev("guard.Do", "close", Len(acc.bound)))]

\* the position of the deferred guard.Do: registered only after InitListeners
\* returned without an error (lines 177-188)
GuardRegistered(bindErr) == bindErr = ""

\* variant: `defer` is missing at line 188, the listeners are closed before
\* the loop and the structural validation use them
ListenerFn_CloseNotDeferred(cfg, out, lc, guard) ==
  LET start == [bound |-> <<>>, closed |-> <<>>, sanitized |-> <<>>, messages |-> <<>>,
                err |-> "", checked |-> FALSE, guard |-> guard, events |-> <<>>]
      bind  == InitListeners(out, 1, start)
      loop  == ListenerLoop(cfg, out, 1, GuardDo(guard, bind))
  IN IF bind.err # "" THEN bind
     ELSE IF loop.err # "" THEN loop
     ELSE ListenerChecks(loop, lc)

\* variant: line 188 is missing, nothing asks the guard to close the listeners
ListenerFn_NoGuard(cfg, out, lc, guard) ==
  LET start == [bound |-> <<>>, closed |-> <<>>, sanitized |-> <<>>, messages |-> <<>>,
                err |-> "", checked |-> FALSE, guard |-> guard, events |-> <<>>]
      bind  == InitListeners(out, 1, start)
      loop  == ListenerLoop(cfg, out, 1, bind)
  IN IF bind.err # "" THEN bind
     ELSE IF loop.err # "" THEN loop
     ELSE ListenerChecks(loop, lc)

\* lines 176-214: the check function of "init-listeners"
ListenerFn(cfg, out, lc, guard) ==
  LET start == [bound |-> <<>>, closed |-> <<>>, sanitized |-> <<>>, messages |-> <<>>,
                err |-> "", checked |-> FALSE, guard |-> guard, events |-> <<>>]
      bind  == InitListeners(out, 1, start)
      loop  == ListenerLoop(cfg, out, 1, bind)
      body  == IF bind.err # "" THEN bind
               ELSE IF loop.err # "" THEN loop
               ELSE ListenerChecks(loop, lc)
  IN IF GuardRegistered(bind.err) THEN GuardDo(guard, body) ELSE body

LnStates(fn) ==
  [k \in 1..Len(fn.bound) |->
     IF \E j \in 1..Len(fn.closed) : fn.closed[j] = fn.bound[k] THEN "closed" ELSE "open"]

LnCloses(fn) ==
  [k \in 1..Len(fn.bound) |->
     Cardinality({j \in 1..Len(fn.closed) : fn.closed[j] = fn.bound[k]})]

\* lines 176-218
InitListenersCheck ==
  /\ pc = "listeners"
  /\ \E out \in [1..Len(config) -> ListenerOutcomes], lc \in LCFindings :
       LET run == Invoked(ListenerName, NoSkips)
           fn  == ListenerFn(config, out, lc, cleanupGuard)
       IN /\ run
          /\ (~fn.checked) => lc = "ok"
          /\ spans' = Test(spans, ListenerName, NoSkips, fn.messages, fn.err)
          /\ results' = [results EXCEPT ![ListenerName] = IF fn.err # "" THEN "err" ELSE "ok"]
          /\ events' = events \o <<Ev("StartSpan", ListenerName, 0), Ev("call", ListenerName, 0)>>
                         \o fn.events \o <<Ev("span.End", ListenerName, 0)>>
          /\ cleanupGuard' = fn.guard
          /\ lnState' = LnStates(fn)
          /\ closes' = LnCloses(fn)
          /\ sanitized' = IF fn.checked THEN fn.sanitized ELSE <<>>
          /\ exitCode' = ExitAfter(fn.err, exitCode)
          /\ pc' = AfterCheck(fn.err, "storage")
  /\ UNCHANGED <<runs, flagConfigs, flagSkips, config, initCalls, reports>>

\* lines 224-227: the check function of "storage"
StorageFn(ok) ==
  [messages |-> <<>>, err |-> IF ok THEN "" ELSE StorageErrText,
   events |-> <<Ev("setupStorage", IF ok THEN "ok" ELSE "err", 0)>>]

\* lines 224-231
StorageCheck ==
  /\ pc = "storage"
  /\ \E ok \in BOOLEAN :
       LET run == Invoked(StorageName, NoSkips)
           fn  == StorageFn(ok)
       IN /\ run
          /\ spans' = Test(spans, StorageName, NoSkips, fn.messages, fn.err)
          /\ results' = [results EXCEPT ![StorageName] = IF fn.err # "" THEN "err" ELSE "ok"]
          /\ events' = events \o <<Ev("StartSpan", StorageName, 0), Ev("call", StorageName, 0)>>
                         \o fn.events \o <<Ev("span.End", StorageName, 0)>>
          /\ exitCode' = ExitAfter(fn.err, 0)
          /\ pc' = "finalize"
  /\ UNCHANGED <<cleanupGuard, runs, flagConfigs, flagSkips, config, initCalls, reports,
                 lnState, closes, sanitized>>

\* variant: the report is finalized and written on the success path only
Finalize_SuccessPathOnly ==
  /\ pc = "finalize"
  /\ IF exitCode = 0
       THEN LET ended == EndSpan(spans, 1)
                r     == Shutdown(ended)
            IN /\ spans' = r.tree
               /\ reports' = Append(reports, r)
               /\ events' = events \o <<Ev("span.End", RootName, 0), Ev("Shutdown", "", 0),
                                        Ev("Write", "", 0), Ev("return", "", exitCode)>>
       ELSE /\ events' = Append(events, Ev("return", "", exitCode))
            /\ UNCHANGED <<spans, reports>>
  /\ pc' = "done"
  /\ UNCHANGED <<cleanupGuard, runs, flagConfigs, flagSkips, config, results, initCalls,
                 lnState, closes, sanitized, exitCode>>

\* lines 123-127, the deferred function: span.End(), Shutdown(), Write(os.Stdout)
Finalize ==
  /\ pc = "finalize"
  /\ LET ended == EndSpan(spans, 1)
         r     == Shutdown(ended)
     IN /\ spans' = r.tree
        /\ reports' = Append(reports, r)
  /\ events' = events \o <<Ev("span.End", RootName, 0), Ev("Shutdown", "", 0),
                           Ev("Write", "", 0), Ev("return", "", exitCode)>>
  /\ pc' = "done"
  /\ UNCHANGED <<cleanupGuard, runs, flagConfigs, flagSkips, config, results, initCalls,
                 lnState, closes, sanitized, exitCode>>

Next ==
  \/ RunNoConfig
  \/ RunStart
  \/ ParseConfiguration
  \/ InitListenersCheck
  \/ StorageCheck
  \/ Finalize

Spec == Init /\ [][Next]_vars

\* ================================================================ claims
Select(evs, ops) == SelectSeq(evs, LAMBDA e : e[1] \in ops)

Count(evs, op) == Len(Select(evs, {op}))

CountAt(evs, op, i) == Len(SelectSeq(evs, LAMBDA e : e[1] = op /\ e[3] = i))

SpanIds(sp, name) == {id \in 1..Len(sp) : sp[id].name = name}

Done == pc = "done"

BindFailed == \E k \in 1..Len(events) : events[k][1] = "bind" /\ events[k][2] = "err"

BindPassed == results[ListenerName] # "notrun" /\ ~BindFailed

CloseActions == Len(SelectSeq(events, LAMBDA e : e[1] = "guard.Do" /\ e[2] = "close"))

\* C1: a check named in the -skip set is never invoked, its span is exactly
\* skip with no children and only the skip marker; with -skip storage and
\* everything else valid the storage factory is not called and the run exits 0.
C1_SkippedCheckNeverInvoked ==
  /\ \A name \in flagSkips \cap CheckNames :
       /\ results[name] = "notrun"
       /\ \A id \in SpanIds(spans, name) :
            /\ spans[id].status = "skip"
            /\ Children(spans, id) = {}
            /\ spans[id].messages = <<Msg("skip", SkipText)>>
  /\ (/\ Done
      /\ StorageName \in flagSkips
      /\ results[ParseName] = "ok"
      /\ results[ListenerName] = "ok")
       => (/\ Count(events, "setupStorage") = 0
           /\ SpanIds(spans, StorageName) # {}
           /\ exitCode = 0)

\* C2: when the storage check fails after init-listeners succeeded, at the end
\* of the run every listener bound by the listener check has been closed
\* exactly once and the close action ran exactly once.
C2_ClosedOnceWhenStorageFails ==
  (Done /\ results[ListenerName] = "ok" /\ results[StorageName] = "err")
    => (/\ \A k \in 1..Len(closes) : closes[k] = 1
        /\ CloseActions = 1)

\* C3: listeners bound before a later bind failure of the same InitListeners
\* pass are closed by the cleanup guard by the end of the run.
C3_BoundBeforeBindFailureClosed ==
  (Done /\ BindFailed) => \A k \in 1..Len(lnState) : lnState[k] = "closed"

\* C4: the checks are invoked in the order parse configuration, init-listeners,
\* storage; a check is invoked only if every earlier check returned no error;
\* after a check returned an error no later check is invoked and no span of a
\* later check exists.
C4_SequentialFailFast ==
  /\ \E n \in 0..Len(CheckOrder) :
       Select(events, {"call"}) = [k \in 1..n |-> Ev("call", CheckOrder[k], 0)]
  /\ \A j \in 1..Len(CheckOrder) :
       results[CheckOrder[j]] # "notrun"
         => \A i \in 1..(j - 1) : results[CheckOrder[i]] = "ok"
  /\ \A i \in 1..Len(CheckOrder) :
       results[CheckOrder[i]] = "err"
         => \A j \in (i + 1)..Len(CheckOrder) :
              /\ results[CheckOrder[j]] = "notrun"
              /\ SpanIds(spans, CheckOrder[j]) = {}
              /\ \A r \in 1..Len(reports) : SpanIds(reports[r].tree, CheckOrder[j]) = {}

\* a parse failure: the report has an error "Parse configuration" span and no
\* span of a later check
C4_Witness ==
  /\ Done
  /\ results[ParseName] = "err"
  /\ Len(reports) = 1
  /\ \E id \in SpanIds(reports[1].tree, ParseName) : reports[1].tree[id].status = "error"
  /\ Len(reports[1].tree) = 2

FinalOps == <<Ev("span.End", RootName, 0), Ev("Shutdown", "", 0), Ev("Write", "", 0)>>

StartedNames ==
  LET st == Select(events, {"StartSpan"}) IN [k \in 1..Len(st) |-> st[k][2]]

\* C5: in every run with a -config path, whichever check aborts it, the root
\* span is ended, then Shutdown runs, then the report is written, each exactly
\* once and in that order, and the report holds every span opened, the span of
\* the failed check included.
C5_FinalizedOnEveryPath ==
  /\ (Done /\ flagConfigs > 0) =>
       /\ SelectSeq(events, LAMBDA e : e[1] \in {"Shutdown", "Write"} \/ e = FinalOps[1])
            = FinalOps
       /\ SubSeq(events, Len(events) - 3, Len(events) - 1) = FinalOps
       /\ Len(reports) = 1
       /\ [id \in 1..Len(reports[1].tree) |-> reports[1].tree[id].name] = StartedNames
       /\ \A c \in CheckNames :
            results[c] = "err" =>
              \E id \in SpanIds(reports[1].tree, c) : reports[1].tree[id].status = "error"
  /\ ~Done => (reports = <<>> /\ Select(events, {"Shutdown", "Write"}) = <<>>)

\* a run aborted by the init-listeners check whose report was written
C5_Witness ==
  /\ Done
  /\ results[ListenerName] = "err"
  /\ Len(reports) = 1
  /\ SpanIds(reports[1].tree, ListenerName) # {}

\* C6: the exit code is 0 exactly when every check not in the skip set
\* completed without a fatal error, and 1 exactly when -config is missing or a
\* check returned a fatal error; warnings never change it.
C6_ExitCode ==
  Done =>
    /\ exitCode \in {0, 1}
    /\ exitCode = 0 <=> (flagConfigs > 0 /\ \A c \in CheckNames \ flagSkips : results[c] = "ok")
    /\ exitCode = 1 <=> (flagConfigs = 0 \/ \E c \in CheckNames : results[c] = "err")

\* C7: in every run whose bind pass succeeds, also a later run on the same
\* command, the close action runs exactly once and closes that run's listeners
\* exactly once.
C7_GuardPerRun ==
  (Done /\ BindPassed)
    => (/\ CloseActions = 1
        /\ \A k \in 1..Len(closes) : closes[k] = 1)

Processed(i) == CountAt(events, "Warn", i) + CountAt(events, "TLSConfig", i) > 0

\* C8: a listener whose configuration disables TLS records exactly one warning
\* and no error, gets no TLS material, is left out of the sanitized set and is
\* closed by the cleanup guard.
C8_TLSDisabledListener ==
  Done =>
    \A i \in 1..Len(config) :
      (config[i].TLSDisable /\ Processed(i)) =>
        /\ CountAt(events, "Warn", i) = 1
        /\ CountAt(events, "TLSConfig", i) = 0
        /\ \A k \in 1..Len(sanitized) : sanitized[k] # i
        /\ i \in 1..Len(lnState) /\ lnState[i] = "closed" /\ closes[i] = 1

\* C9: without a -config path the run returns 1 after the usage error: the
\* reporter is not initialized, no span is opened, no check function is
\* invoked, no listener is bound and no report is written.
C9_NoConfigUsageError ==
  (runs > 0 /\ flagConfigs = 0) =>
    /\ Done
    /\ exitCode = 1
    /\ events = <<Ev("UI.Error", "", 0), Ev("return", "", 1)>>
    /\ initCalls = 0
    /\ spans = <<>>
    /\ results = NotRun
    /\ lnState = <<>>
    /\ reports = <<>>

\* a second invocation, without -config, after one that bound listeners
C9_Witness ==
  /\ runs = 2
  /\ flagConfigs = 0
  /\ Done
  /\ cleanupGuard

RECURSIVE Ancestors(_, _)
Ancestors(sp, id) ==
  IF sp[id].parent = 0 THEN {} ELSE {sp[id].parent} \cup Ancestors(sp, sp[id].parent)

\* C10: in a written report every span's status is the worst of its own
\* message severities and its children's statuses (error > warn > skip > ok);
\* a span with a descendant of status error has status error.
C10_StatusIsWorst ==
  \A r \in 1..Len(reports) :
    LET t == reports[r].tree
    IN \A id \in 1..Len(t) :
         /\ t[id].ended
         /\ t[id].status = Aggregate(t, id)
         /\ t[id].status = "error" => \A a \in Ancestors(t, id) : t[a].status = "error"

\* a report with a warn span (an advisory), an ok span and the error root
C10_Witness ==
  /\ Len(reports) = 1
  /\ \E id \in SpanIds(reports[1].tree, ListenerName) : reports[1].tree[id].status = "warn"
  /\ \E id \in SpanIds(reports[1].tree, StorageName) : reports[1].tree[id].status = "ok"
  /\ reports[1].tree[1].status = "error"

WarnErrorCalls == Count(events, "Warn") + Count(events, "Error")

FailedChecks == Cardinality({c \in CheckNames : results[c] = "err"})

TLSFailedAt(i) ==
  \E k \in 1..Len(events) : events[k] = Ev("TLSConfig", "err", i)

TLSFailed == \E i \in 1..Len(config) : TLSFailedAt(i)

\* C12: when TLS construction fails for a listener after all were bound, the
\* init-listeners check returns an error (exit 1), no later listener is
\* processed, structural validation and the storage check do not run, and
\* every bound listener is closed exactly once.
C12_TLSFailureClosesAll ==
  (Done /\ TLSFailed) =>
    /\ results[ListenerName] = "err"
    /\ exitCode = 1
    /\ \A i \in 1..Len(config) :
         TLSFailedAt(i) => \A j \in (i + 1)..Len(config) : ~Processed(j)
    /\ Count(events, "ListenerChecks") = 0
    /\ results[StorageName] = "notrun"
    /\ Len(closes) = Len(config)
    /\ \A k \in 1..Len(closes) : closes[k] = 1

Uses == {"bind", "TLSConfig", "ListenerChecks"}

\* C13: listeners are closed only by the guard's close action; no listener is
\* closed twice, and nothing binds, builds TLS for, or validates a listener
\* after the close action ran.
C13_NoDoubleCloseNoUseAfterClose ==
  /\ CloseActions <= 1
  /\ \A k \in 1..Len(closes) :
       /\ closes[k] <= 1
       /\ closes[k] = 1 => CloseActions = 1
       /\ closes[k] = 1 <=> lnState[k] = "closed"
  /\ \A p \in 1..Len(events) :
       events[p][1] = "guard.Do" =>
         \A q \in (p + 1)..Len(events) :
           /\ events[q][1] \notin Uses
           /\ ~(events[q][1] = "Warn" /\ events[q][3] > 0)

\* listeners closed after TLS construction and structural validation used them
C13_Witness ==
  /\ Done
  /\ CloseActions = 1
  /\ Count(events, "ListenerChecks") = 1
  /\ Len(sanitized) >= 1
  /\ Len(closes) >= 2
  /\ \A k \in 1..Len(closes) : closes[k] = 1

TLSEnabled == SelectSeq([i \in 1..Len(config) |-> i], LAMBDA i : ~config[i].TLSDisable)

LCEvents == Select(events, {"ListenerChecks"})

ListenerMessages ==
  LET ids == SpanIds(spans, ListenerName)
  IN IF ids = {} THEN <<>> ELSE spans[CHOOSE id \in ids : TRUE].messages

HasMessage(msgs, m) == \E k \in 1..Len(msgs) : msgs[k] = m

ParseMessages ==
  LET ids == SpanIds(spans, ParseName)
  IN IF ids = {} THEN <<>> ELSE spans[CHOOSE id \in ids : TRUE].messages

Findings ==
  LET v == Select(events, {"Validate"}) IN IF v = <<>> THEN 0 ELSE v[1][3]

\* C15: when parsing succeeds every validation finding is exactly one warning
\* on the "Parse configuration" span, the check returns no error whatever the
\* number of findings and the run goes on to init-listeners; when parsing
\* fails, validation is not performed and the check returns the parse error.
C15_ValidationFindingsAreWarnings ==
  /\ \A k \in 1..Len(events) :
       events[k] = Ev("parseConfig", "ok", 0) =>
         /\ Count(events, "Validate") = 1
         /\ ParseMessages = FindingWarnings(Findings)
         /\ results[ParseName] = "ok"
         /\ pc # "finalize" \/ results[ListenerName] # "notrun"
         /\ Done => results[ListenerName] # "notrun"
  /\ \A k \in 1..Len(events) :
       events[k] = Ev("parseConfig", "err", 0) =>
         /\ Count(events, "Validate") = 0
         /\ ParseMessages = <<Msg("error", ParseErrText)>>
         /\ results[ParseName] = "err"
         /\ exitCode = 1

\* a configuration with a validation finding whose run reached init-listeners
C15_Witness ==
  /\ Findings >= 1
  /\ Len(ParseMessages) = Findings
  /\ results[ParseName] = "ok"
  /\ results[ListenerName] # "notrun"

NoCertsTLS(i) == ~config[i].TLSDisable /\ config[i].TLSDisableClientCerts

TLSBuiltAt(i) ==
  \E k \in 1..Len(events) : events[k] = Ev("TLSConfig", "ok", i)

\* C16 as stated: a TLS-enabled listener without client-certificate
\* requirement records exactly one warning and is in the sanitized set when its
\* TLS material is constructible; a listener whose TLS construction fails
\* records the fatal error and no client-certificate warning.
C16_WarningOnlyWhenTLSBuilt ==
  \A i \in 1..Len(config) :
    NoCertsTLS(i) =>
      /\ TLSBuiltAt(i) => CountAt(events, "Warn", i) = 1
      /\ (TLSBuiltAt(i) /\ Len(LCEvents) = 1) => HasMessage(sanitized, i)
      /\ TLSFailedAt(i) => CountAt(events, "Warn", i) = 0

\* C16 amended: every such listener the loop reaches records exactly one
\* warning, before its TLS material is constructed and also when the
\* construction then fails; a constructible one is in the sanitized set, a
\* failing one makes the check return the error.
C16_WarningBeforeTLS ==
  \A i \in 1..Len(config) :
    (NoCertsTLS(i) /\ Processed(i)) =>
      /\ CountAt(events, "Warn", i) = 1
      /\ CountAt(events, "TLSConfig", i) = 1
      /\ \A p \in 1..Len(events) :
           events[p] = Ev("Warn", NoClientCertText, i) =>
             \A q \in 1..p : ~(events[q][1] = "TLSConfig" /\ events[q][3] = i)
      /\ (TLSBuiltAt(i) /\ Len(LCEvents) = 1) => HasMessage(sanitized, i)
      /\ TLSFailedAt(i) =>
           /\ results[ListenerName] = "err"
           /\ HasMessage(ListenerMessages, Msg("warn", NoClientCertText))
           /\ HasMessage(ListenerMessages, Msg("error", TLSErrText))

\* a listener without client-certificate requirement whose TLS construction
\* failed: the warning and the fatal error are both on the span
C16_Witness ==
  /\ Done
  /\ \E i \in 1..Len(config) :
       NoCertsTLS(i) /\ TLSFailedAt(i) /\ CountAt(events, "Warn", i) = 1

\* C17 as stated: the listeners bound by the init-listeners check are still
\* open while the storage check runs and are closed at run exit.
C17_OpenUntilRunExit ==
  /\ pc = "storage" => \A k \in 1..Len(lnState) : lnState[k] = "open"
  /\ (Done /\ BindPassed) => \A k \in 1..Len(lnState) : lnState[k] = "closed"

\* C17 amended: cleanup is requested once, by the deferred call inside the
\* init-listeners check function, when that function returns and before the
\* span of the check ends; listeners the close action closed are closed when
\* the storage check starts, and nothing closes a listener later in the run.
C17_ClosedWhenListenerCheckReturns ==
  /\ BindPassed =>
       /\ Count(events, "guard.Do") = 1
       /\ \E p \in 1..(Len(events) - 1) :
            /\ events[p][1] = "guard.Do"
            /\ events[p + 1] = Ev("span.End", ListenerName, 0)
            /\ (events[p][2] = "close" /\ pc \in {"storage", "finalize", "done"})
                 => \A k \in 1..Len(lnState) : lnState[k] = "closed"
  /\ \A p \in 1..Len(events) :
       (events[p] = Ev("StartSpan", StorageName, 0) \/ events[p] = Ev("span.End", RootName, 0))
         => \A q \in p..Len(events) : events[q][1] # "guard.Do"

\* the storage check is about to run and the listeners are already closed
C17_Witness ==
  /\ pc = "storage"
  /\ Len(lnState) >= 1
  /\ \A k \in 1..Len(lnState) : lnState[k] = "closed"

AllChecksOk == \A c \in CheckNames : results[c] = "ok"

\* C18: a run in which every check succeeds and no advisory is raised has a
\* report with no message and no span of status error; the root span is error
\* only if a check recorded an error.
C18_NoSyntheticFailure ==
  \A r \in 1..Len(reports) :
    LET t == reports[r].tree
    IN /\ (AllChecksOk /\ Count(events, "Warn") = 0) =>
            /\ reports[r].flat = <<>>
            /\ \A id \in 1..Len(t) : t[id].status # "error"
       /\ t[1].status = "error" =>
            \E id \in 2..Len(t) : "error" \in Severities(t, id)

====
